---- MODULE Spec2Model ----
(***************************************************************************)
(* cmake/settings/ini-to-stdio.py: the translator that loads an fprime     *)
(* settings.ini for the build and the unit-test variant, checks that the   *)
(* settings CMake needs are the same in both, and prints them to standard  *)
(* output as a CMake list of SETTING=VALUE; records.                       *)
(*                                                                         *)
(* A Python str is modelled as the sequence of its characters, each a      *)
(* one-character string, so that str.replace, split, strip and slicing are *)
(* computed as Python computes them.  A character TLA+ cannot write in a   *)
(* string is named by its code point, "U+00A0".                            *)
(***************************************************************************)
EXTENDS Integers, Sequences, FiniteSets, TLC

VARIABLES
    settings,           \* str(args_ns.settings): the settings path as given
    ini_real_path,      \* main's local: str(args_ns.settings.resolve())
    pc,                 \* position of the process in main
    loaded_settings,    \* main's local: the build variant's mapping
    loaded_settings_ut, \* main's local: the unit-test variant's mapping
    REMAPPING,          \* module-level dict, as its items in insertion order
    setting_idx,        \* position of the for loop in CMAKE_NEEDED_SETTINGS
    stdout,             \* the texts written to sys.stdout, one per print call
    origin,             \* for each text of stdout, what wrote it
    stderr,             \* the messages written to sys.stderr
    exit_status         \* <<>> while running, <<n>> once exited with status n

vars ==
    <<settings, ini_real_path, pc, loaded_settings, loaded_settings_ut,
      REMAPPING, setting_idx, stdout, origin, stderr, exit_status>>

(***************************************************************************)
(* Python string primitives                                                *)
(***************************************************************************)

\* s[::-1]
RECURSIVE Reverse(_)
Reverse(s) ==
    IF s = <<>> THEN <<>> ELSE Append(Reverse(Tail(s)), Head(s))

\* os.path.commonprefix([a, b]): the longest common leading run of characters
RECURSIVE commonprefix(_, _)
commonprefix(a, b) ==
    IF a = <<>> \/ b = <<>> \/ Head(a) # Head(b)
    THEN <<>>
    ELSE <<Head(a)>> \o commonprefix(Tail(a), Tail(b))

\* s[: -1 * n] for n >= 0.  Python reads the stop -0 as 0, so n = 0 gives ''
\* and not the whole of s.
SliceToNeg(s, n) ==
    IF n = 0 THEN <<>>
    ELSE IF n >= Len(s) THEN <<>>
    ELSE SubSeq(s, 1, Len(s) - n)

\* whether old occurs in s at position i (1-based)
MatchesAt(s, old, i) ==
    /\ i + Len(old) - 1 <= Len(s)
    /\ SubSeq(s, i, i + Len(old) - 1) = old

\* str.replace for a non-empty old: non-overlapping occurrences, left to right
RECURSIVE ReplaceFrom(_, _, _, _)
ReplaceFrom(s, old, new, i) ==
    IF i > Len(s) THEN <<>>
    ELSE IF MatchesAt(s, old, i)
         THEN new \o ReplaceFrom(s, old, new, i + Len(old))
         ELSE <<s[i]>> \o ReplaceFrom(s, old, new, i + 1)

\* str.replace for old = '': new goes before every character and at the end
RECURSIVE Intersperse(_, _)
Intersperse(s, new) ==
    IF s = <<>> THEN new
    ELSE new \o <<Head(s)>> \o Intersperse(Tail(s), new)

\* s.replace(old, new)
Replace(s, old, new) ==
    IF old = <<>> THEN Intersperse(s, new) ELSE ReplaceFrom(s, old, new, 1)

\* sep.join(items)
RECURSIVE Join(_, _)
Join(items, sep) ==
    IF items = <<>> THEN <<>>
    ELSE IF Len(items) = 1 THEN items[1]
    ELSE items[1] \o sep \o Join(Tail(items), sep)

\* index of the first c in s at or after i, or 0
RECURSIVE IndexFrom(_, _, _)
IndexFrom(s, c, i) ==
    IF i > Len(s) THEN 0
    ELSE IF s[i] = c THEN i
    ELSE IndexFrom(s, c, i + 1)

\* s.split(c): always at least one piece
RECURSIVE Split(_, _)
Split(s, c) ==
    LET i == IndexFrom(s, c, 1) IN
    IF i = 0 THEN <<s>>
    ELSE <<SubSeq(s, 1, i - 1)>> \o Split(SubSeq(s, i + 1, Len(s)), c)

\* s.split(c, 1): at most two pieces
SplitOnce(s, c) ==
    LET i == IndexFrom(s, c, 1) IN
    IF i = 0 THEN <<s>>
    ELSE <<SubSeq(s, 1, i - 1), SubSeq(s, i + 1, Len(s))>>

\* the characters str.strip() removes: those str.isspace() holds of
Whitespace ==
    {"\t", "\n", "U+000B", "\f", "\r", "U+001C", "U+001D", "U+001E", "U+001F",
     " ", "U+0085", "U+00A0", "U+1680", "U+2000", "U+2001", "U+2002",
     "U+2003", "U+2004", "U+2005", "U+2006", "U+2007", "U+2008", "U+2009",
     "U+200A", "U+2028", "U+2029", "U+202F", "U+205F", "U+3000"}

RECURSIVE LStrip(_)
LStrip(s) ==
    IF s # <<>> /\ Head(s) \in Whitespace THEN LStrip(Tail(s)) ELSE s

\* s.strip()
Strip(s) == Reverse(LStrip(Reverse(LStrip(s))))

(***************************************************************************)
(* The names and texts the program writes                                  *)
(***************************************************************************)

FPRIME_FRAMEWORK_PATH ==
    <<"F", "P", "R", "I", "M", "E", "_", "F", "R", "A", "M", "E", "W", "O",
    "R", "K", "_", "P", "A", "T", "H">>
FPRIME_PROJECT_ROOT ==
    <<"F", "P", "R", "I", "M", "E", "_", "P", "R", "O", "J", "E", "C", "T",
    "_", "R", "O", "O", "T">>
FPRIME_LIBRARY_LOCATIONS ==
    <<"F", "P", "R", "I", "M", "E", "_", "L", "I", "B", "R", "A", "R", "Y",
    "_", "L", "O", "C", "A", "T", "I", "O", "N", "S">>
CMAKE_INSTALL_PREFIX ==
    <<"C", "M", "A", "K", "E", "_", "I", "N", "S", "T", "A", "L", "L", "_",
    "P", "R", "E", "F", "I", "X">>
FPRIME_SETTINGS_FILE ==
    <<"F", "P", "R", "I", "M", "E", "_", "S", "E", "T", "T", "I", "N", "G",
    "S", "_", "F", "I", "L", "E">>

\* the message of the assert of main
ASSERT_MESSAGE == "CMake can only parse unittest independent settings"

(***************************************************************************)
(* print_setting and the handlers of CMAKE_NEEDED_SETTINGS                 *)
(***************************************************************************)

\* print_setting without its escaping of ';'
Escape_None(value) == value

\* str(value).replace(";", "\;")
Escape(value) == Replace(value, <<";">>, <<"\\", ";">>)

\* for initial, final in REMAPPING.items(): value = value.replace(initial, final)
RECURSIVE ApplyRemapping(_, _)
ApplyRemapping(value, remapping) ==
    IF remapping = <<>> THEN value
    ELSE ApplyRemapping(
             Replace(value, Head(remapping).initial, Head(remapping).final),
             Tail(remapping))

\* the value print_setting writes after the '='
EmittedValue(value, remapping) == ApplyRemapping(Escape(value), remapping)

\* the text print_setting(setting, value, ending) writes to stdout
print_setting(setting, value, ending, remapping) ==
    setting \o <<"=">> \o EmittedValue(value, remapping) \o ending

\* print_list_settings without its test of splits[0]: every item is printed
print_list_settings_NoSkip(items, remapping) ==
    [i \in 1..Len(items) |->
        LET splits == SplitOnce(Strip(items[i]), "=")
            value  == IF Len(splits) = 2 THEN splits[2] ELSE <<>>
        IN  print_setting(splits[1], value, <<";">>, remapping)]

\* the texts print_list_settings(items) writes, one per item it prints
RECURSIVE print_list_settings(_, _)
print_list_settings(items, remapping) ==
    IF items = <<>> THEN <<>>
    ELSE LET splits == SplitOnce(Strip(Head(items)), "=")
             value  == IF Len(splits) = 2 THEN splits[2] ELSE <<>>
             rest   == print_list_settings(Tail(items), remapping)
         IN  IF splits[1] # <<>>
             THEN <<print_setting(splits[1], value, <<";">>, remapping)>>
                  \o rest
             ELSE rest

\* CMAKE_NEEDED_SETTINGS with install_destination entered before
\* default_cmake_options
CMAKE_NEEDED_SETTINGS_Swapped ==
    <<"framework_path", "project_root", "library_locations",
      "install_destination", "default_cmake_options">>

\* the keys of CMAKE_NEEDED_SETTINGS in the dict's (insertion) order, which
\* is the order the for loop of main visits them in
CMAKE_NEEDED_SETTINGS ==
    <<"framework_path", "project_root", "library_locations",
      "default_cmake_options", "install_destination">>

\* CMAKE_NEEDED_SETTINGS[setting](output): the texts the handler writes
handler(setting, output, remapping) ==
    CASE setting = "framework_path" ->
           <<print_setting(FPRIME_FRAMEWORK_PATH, output, <<";">>, remapping)>>
      [] setting = "project_root" ->
           <<print_setting(FPRIME_PROJECT_ROOT, output, <<";">>, remapping)>>
      [] setting = "library_locations" ->
           <<print_setting(FPRIME_LIBRARY_LOCATIONS, Join(output, <<";">>),
                           <<";">>, remapping)>>
      [] setting = "default_cmake_options" ->
           print_list_settings(Split(output, "\n"), remapping)
      [] setting = "install_destination" ->
           <<print_setting(CMAKE_INSTALL_PREFIX, output, <<";">>, remapping)>>

(***************************************************************************)
(* The remapping rule of main                                              *)
(***************************************************************************)

\* os.path.commonprefix([ini_path[::-1], ini_real_path[::-1]])[::-1]
common_suffix(ini_path, real_path) ==
    Reverse(commonprefix(Reverse(ini_path), Reverse(real_path)))

\* d[k] = v on a dict kept as its items in insertion order
DictSet(d, k, v) ==
    IF \E i \in 1..Len(d) : d[i].initial = k
    THEN [i \in 1..Len(d) |->
             IF d[i].initial = k THEN [initial |-> k, final |-> v] ELSE d[i]]
    ELSE Append(d, [initial |-> k, final |-> v])

\* REMAPPING[ini_real_path[: -1 * len(common_suffix)]] =
\*     ini_path[: -1 * len(common_suffix)]
DeriveRemapping(d, ini_path, real_path) ==
    LET n == Len(common_suffix(ini_path, real_path))
    IN  DictSet(d, SliceToNeg(real_path, n), SliceToNeg(ini_path, n))

(***************************************************************************)
(* main, one action per step                                               *)
(***************************************************************************)

\* sys.exit(status)
Exit(status) ==
    /\ exit_status' = <<status>>
    /\ pc' = "exited"

\* the handler of __main__ without its final sys.exit(1): the message is
\* printed and the interpreter ends with status 0
Uncaught_ExitZero(message) ==
    /\ stderr' = Append(stderr, [kind |-> "exception", text |-> message])
    /\ Exit(0)

\* an exception leaves main: the handler of __main__ prints it to stderr and
\* the process exits with status 1
Uncaught(message) ==
    /\ stderr' = Append(stderr, [kind |-> "exception", text |-> message])
    /\ Exit(1)

\* parser.parse_args(): with one or two positional arguments args_ns.settings
\* is the path given; -h prints the help to stdout and exits 0; any other
\* command line is a usage error, reported on stderr with exit status 2.
\* cases is the file system: pairs <<path given, what it resolves to>>.
ParseArgs(cases) ==
    /\ pc = "parse_args"
    /\ \/ /\ \E c \in cases : settings' = c[1]
          /\ pc' = "load"
          /\ UNCHANGED <<stdout, origin, stderr, exit_status>>
       \/ /\ stdout' = Append(stdout, <<"u", "s", "a", "g", "e">>)
          /\ origin' = Append(origin, "argparse")
          /\ Exit(0)
          /\ UNCHANGED <<settings, stderr>>
       \/ /\ stderr' = Append(stderr, [kind |-> "usage", text |-> "error"])
          /\ Exit(2)
          /\ UNCHANGED <<settings, stdout, origin>>
    /\ UNCHANGED <<ini_real_path, loaded_settings, loaded_settings_ut,
                   REMAPPING, setting_idx>>

\* loaded_settings = IniSettings.load(args_ns.settings, stem, False): the
\* resolver returns one of mappings, or raises
Load(mappings) ==
    /\ pc = "load"
    /\ \/ /\ \E m \in mappings : loaded_settings' = m
          /\ pc' = "load_ut"
          /\ UNCHANGED <<stderr, exit_status>>
       \/ /\ Uncaught("load failed")
          /\ UNCHANGED loaded_settings
    /\ UNCHANGED <<settings, ini_real_path, loaded_settings_ut, REMAPPING,
                   setting_idx, stdout, origin>>

\* loaded_settings_ut = IniSettings.load(args_ns.settings, stem, True)
LoadUt(mappings) ==
    /\ pc = "load_ut"
    /\ \/ /\ \E m \in mappings : loaded_settings_ut' = m
          /\ pc' = "remap"
          /\ UNCHANGED <<stderr, exit_status>>
       \/ /\ Uncaught("load failed")
          /\ UNCHANGED loaded_settings_ut
    /\ UNCHANGED <<settings, ini_real_path, loaded_settings, REMAPPING,
                   setting_idx, stdout, origin>>

\* ini_path = str(args_ns.settings), ini_real_path =
\* str(args_ns.settings.resolve()), common_suffix and the assignment to
\* REMAPPING; resolve() may raise instead (a symlink loop), which leaves
\* main before REMAPPING is touched
Remap(cases) ==
    /\ pc = "remap"
    /\ \/ /\ \E c \in cases :
                /\ c[1] = settings
                /\ ini_real_path' = c[2]
                /\ REMAPPING' = DeriveRemapping(REMAPPING, settings, c[2])
          /\ pc' = "loop"
          /\ setting_idx' = 1
          /\ UNCHANGED <<stderr, exit_status>>
       \/ /\ Uncaught("resolve failed")
          /\ UNCHANGED <<ini_real_path, REMAPPING, setting_idx>>
    /\ UNCHANGED <<settings, loaded_settings, loaded_settings_ut, stdout,
                   origin>>

\* the setting the for loop is at
CurrentSetting == CMAKE_NEEDED_SETTINGS[setting_idx]

\* the loop goes to its next setting, or ends
Advance ==
    /\ setting_idx' = setting_idx + 1
    /\ pc' = IF setting_idx = Len(CMAKE_NEEDED_SETTINGS)
             THEN "trailer" ELSE "loop"

\* whether loaded_settings[setting] or loaded_settings_ut[setting] raises
\* KeyError
RaisesKeyError(setting) ==
    \/ setting \notin DOMAIN loaded_settings
    \/ setting \notin DOMAIN loaded_settings_ut

\* the assert compiled away
ValuesAgree_Always(setting_value, ut_setting_value) == TRUE

\* the condition of the assert: setting_value == ut_setting_value
ValuesAgree(setting_value, ut_setting_value) ==
    setting_value = ut_setting_value

\* the except clause without its print: the field is skipped silently
FieldMissing_Silent ==
    /\ pc = "loop"
    /\ RaisesKeyError(CurrentSetting)
    /\ Advance
    /\ UNCHANGED <<settings, ini_real_path, loaded_settings,
                   loaded_settings_ut, REMAPPING, stdout, origin, stderr,
                   exit_status>>

\* one iteration whose lookup raises KeyError: the warning, and on
FieldMissing ==
    /\ pc = "loop"
    /\ RaisesKeyError(CurrentSetting)
    /\ stderr' = Append(stderr, [kind |-> "warning", text |-> CurrentSetting])
    /\ Advance
    /\ UNCHANGED <<settings, ini_real_path, loaded_settings,
                   loaded_settings_ut, REMAPPING, stdout, origin,
                   exit_status>>

\* one iteration whose assert fails: AssertionError leaves main
FieldMismatch ==
    /\ pc = "loop"
    /\ ~RaisesKeyError(CurrentSetting)
    /\ ~ValuesAgree(loaded_settings[CurrentSetting],
                    loaded_settings_ut[CurrentSetting])
    /\ Uncaught(ASSERT_MESSAGE)
    /\ UNCHANGED <<settings, ini_real_path, loaded_settings,
                   loaded_settings_ut, REMAPPING, setting_idx, stdout,
                   origin>>

\* one iteration that calls the handler on loaded_settings[setting]
FieldEmit ==
    /\ pc = "loop"
    /\ ~RaisesKeyError(CurrentSetting)
    /\ ValuesAgree(loaded_settings[CurrentSetting],
                   loaded_settings_ut[CurrentSetting])
    /\ LET written == handler(CurrentSetting,
                              loaded_settings[CurrentSetting], REMAPPING)
       IN  /\ stdout' = stdout \o written
           /\ origin' = origin \o [i \in 1..Len(written) |-> CurrentSetting]
    /\ Advance
    /\ UNCHANGED <<settings, ini_real_path, loaded_settings,
                   loaded_settings_ut, REMAPPING, stderr, exit_status>>

\* print_setting("FPRIME_SETTINGS_FILE", args_ns.settings, ending=""),
\* return 0, and sys.exit(main())
Finish ==
    /\ pc = "trailer"
    /\ stdout' = Append(stdout,
                        print_setting(FPRIME_SETTINGS_FILE, settings, <<>>,
                                      REMAPPING))
    /\ origin' = Append(origin, "settings_file")
    /\ Exit(0)
    /\ UNCHANGED <<settings, ini_real_path, loaded_settings,
                   loaded_settings_ut, REMAPPING, setting_idx, stderr>>

(***************************************************************************)
(* Inputs: the command line, the file system and the settings file         *)
(***************************************************************************)

\* a mapping with no setting in it
EmptyMapping == [s \in {} |-> <<>>]

\* the mapping holding the settings whose option is <<value>>, <<>> being a
\* setting the settings file does not give
MakeMapping(options) ==
    [s \in {t \in DOMAIN options : options[t] # <<>>} |-> options[s][1]]

\* the state before main is called: REMAPPING = {} and nothing written
Init ==
    /\ settings = <<>>
    /\ ini_real_path = <<>>
    /\ pc = "parse_args"
    /\ loaded_settings = EmptyMapping
    /\ loaded_settings_ut = EmptyMapping
    /\ REMAPPING = <<>>
    /\ setting_idx = 0
    /\ stdout = <<>>
    /\ origin = <<>>
    /\ stderr = <<>>
    /\ exit_status = <<>>

\* Settings files of a project under /home/u/proj
RelIni ==
    <<"p", "r", "o", "j", "/", "s", "e", "t", "t", "i", "n", "g", "s", ".",
    "i", "n", "i">>
AbsIni ==
    <<"/", "h", "o", "m", "e", "/", "u", "/", "p", "r", "o", "j", "/", "s",
    "e", "t", "t", "i", "n", "g", "s", ".", "i", "n", "i">>
LinkIni ==
    <<"/", "h", "o", "m", "e", "/", "u", "/", "p", "r", "o", "j", "2", "/",
    "s", "e", "t", "t", "i", "n", "g", "s", ".", "i", "n", "i">>
Fw1 ==
    <<"/", "h", "o", "m", "e", "/", "u", "/", "p", "r", "o", "j", "/", "f",
    "w">>
Fw2 ==
    <<"/", "o", "p", "t", "/", "f", "w">>
Root1 ==
    <<"/", "h", "o", "m", "e", "/", "u", "/", "p", "r", "o", "j">>
Root2 ==
    <<"/", "w">>
Lib1 ==
    <<"/", "h", "o", "m", "e", "/", "u", "/", "p", "r", "o", "j", "/", "l",
    "i", "b", "1">>
Lib2 ==
    <<"/", "h", "o", "m", "e", "/", "u", "/", "p", "r", "o", "j", "/", "l",
    "i", "b", "2">>
Opt1 ==
    <<"A", "=", "1">>
OptN ==
    <<"A", "=", "1", "\n", "\n", " ", "B", "=", "2", ";", "3", "\n", "\f",
    "\n", "C", "U+00A0">>
Dest1 ==
    <<"/", "h", "o", "m", "e", "/", "u", "/", "p", "r", "o", "j", "/", "o",
    "u", "t">>
Dest2 ==
    <<"/", "t", "m", "p", "/", "o", ";", "p">>


\* the file system, as <<path given, what it resolves to>>: a relative path,
\* an absolute path that resolves to itself, and a path through the symlink
\* proj2 -> proj
PathCases ==
    {<<RelIni, AbsIni>>, <<AbsIni, AbsIni>>, <<LinkIni, AbsIni>>}

\* the values a settings file may give each setting
FieldValues(setting) ==
    CASE setting = "framework_path"        -> {Fw1, Fw2}
      [] setting = "project_root"          -> {Root1, Root2}
      [] setting = "library_locations"     -> {<<>>, <<Lib1, Lib2>>}
      [] setting = "default_cmake_options" -> {<<>>, Opt1, OptN}
      [] setting = "install_destination"   -> {Dest1, Dest2}

Options(setting) == {<<>>} \cup {<<v>> : v \in FieldValues(setting)}

Mappings ==
    {MakeMapping([framework_path |-> a, project_root |-> b,
                  library_locations |-> c, default_cmake_options |-> d,
                  install_destination |-> e]) :
        a \in Options("framework_path"), b \in Options("project_root"),
        c \in Options("library_locations"),
        d \in Options("default_cmake_options"),
        e \in Options("install_destination")}

\* main run on the settings files of a project
Next ==
    \/ ParseArgs(PathCases)
    \/ Load(Mappings)
    \/ LoadUt(Mappings)
    \/ Remap(PathCases)
    \/ FieldMissing
    \/ FieldMismatch
    \/ FieldEmit
    \/ Finish

Spec == Init /\ [][Next]_vars

(***************************************************************************)
(* Inputs for the text functions: every short path and value               *)
(***************************************************************************)

MaxPathLen == 4
MaxValueLen == 3

PathAlphabet == {"/", "a"}
ValueAlphabet == {"/", "a", ";", "\\"}

\* the strings over alphabet of n characters at most
Strings(alphabet, n) == UNION {[1..k -> alphabet] : k \in 0..n}

\* a fixed point of str(Path(s)) that names a file: not empty, no '/' at
\* the end, and no '//' but exactly two slashes at the start, which POSIX
\* pathlib keeps
PurePathOfFile(s) ==
    /\ s # <<>>
    /\ s[Len(s)] # "/"
    /\ \A i \in 2..(Len(s) - 1) : ~(s[i] = "/" /\ s[i + 1] = "/")

\* str(args_ns.settings) for a file, relative or absolute
GivenPaths == {s \in Strings(PathAlphabet, MaxPathLen) : PurePathOfFile(s)}

\* str(args_ns.settings.resolve()) for a file: absolute, one leading slash
ResolvedPaths ==
    {s \in GivenPaths : s[1] = "/" /\ (Len(s) >= 2 => s[2] # "/")}

\* an absolute path with its leading '//' read as '/'
OneLeadingSlash(s) ==
    IF Len(s) >= 2 /\ s[1] = "/" /\ s[2] = "/" THEN Tail(s) ELSE s

\* whether path dir, followed by '/', starts path s
Below(s, dir) ==
    /\ Len(s) > Len(dir) + 1
    /\ SubSeq(s, 1, Len(dir) + 1) = dir \o <<"/">>

\* what resolve() can make of a given path: through symlinks a relative path
\* resolves to any absolute path; an absolute one to any but a path below
\* itself (a symlink through itself is a loop) or above itself (that is a
\* directory, not a file)
AllPathCases ==
    {c \in GivenPaths \X ResolvedPaths :
        c[1][1] = "/" =>
            /\ ~Below(c[2], OneLeadingSlash(c[1]))
            /\ ~Below(OneLeadingSlash(c[1]), c[2])}

\* settings files that give framework_path alone, with any short value
TextMappings ==
    {MakeMapping([framework_path |-> <<v>>]) :
        v \in Strings(ValueAlphabet, MaxValueLen)}

\* main run on every short path and framework_path value
NextText ==
    \/ ParseArgs(AllPathCases)
    \/ Load(TextMappings)
    \/ LoadUt(TextMappings)
    \/ Remap(AllPathCases)
    \/ FieldMissing
    \/ FieldMismatch
    \/ FieldEmit
    \/ Finish

SpecText == Init /\ [][NextText]_vars


(***************************************************************************)
(* What the properties speak of                                            *)
(***************************************************************************)

\* the generator-critical fields, and the fixed order of their records
CriticalFields ==
    {"framework_path", "project_root", "library_locations",
     "default_cmake_options", "install_destination"}

\* place of a text of stdout in the fixed order: the help of argparse, the
\* five fields, the trailing settings-file record
RankOf(o) ==
    CASE o = "argparse"              -> 0
      [] o = "framework_path"        -> 1
      [] o = "project_root"          -> 2
      [] o = "library_locations"     -> 3
      [] o = "default_cmake_options" -> 4
      [] o = "install_destination"   -> 5
      [] o = "settings_file"         -> 6

\* the name a single-record field is written under
RecordName(f) ==
    CASE f = "framework_path"      -> FPRIME_FRAMEWORK_PATH
      [] f = "project_root"        -> FPRIME_PROJECT_ROOT
      [] f = "library_locations"   -> FPRIME_LIBRARY_LOCATIONS
      [] f = "install_destination" -> CMAKE_INSTALL_PREFIX
      [] f = "settings_file"       -> FPRIME_SETTINGS_FILE

\* concatenation of a sequence of strings
RECURSIVE Flatten(_)
Flatten(ss) ==
    IF ss = <<>> THEN <<>> ELSE Head(ss) \o Flatten(Tail(ss))

HasPrefix(s, p) == Len(s) >= Len(p) /\ SubSeq(s, 1, Len(p)) = p

\* the records of stdout written for o
RecordsOf(o) == {i \in DOMAIN origin : origin[i] = o}

Count(o) == Cardinality(RecordsOf(o))

\* the warnings on stderr that name field f
Warnings(f) ==
    Cardinality({i \in DOMAIN stderr :
                    stderr[i] = [kind |-> "warning", text |-> f]})

AllWarnings ==
    Cardinality({i \in DOMAIN stderr : stderr[i].kind = "warning"})

Exited == pc = "exited"

\* a resolver call has raised
LoadFailed ==
    \E i \in DOMAIN stderr :
        stderr[i] = [kind |-> "exception", text |-> "load failed"]

\* resolve() has raised
ResolveFailed ==
    \E i \in DOMAIN stderr :
        stderr[i] = [kind |-> "exception", text |-> "resolve failed"]

\* both resolver calls have returned their mappings
BothLoaded ==
    \/ pc \in {"remap", "loop", "trailer"}
    \/ Exited /\ settings # <<>> /\ ~LoadFailed

\* the settings path has been resolved, the rule stored and the loop entered
LoopEntered == setting_idx >= 1

PresentInBoth(f) ==
    f \in DOMAIN loaded_settings /\ f \in DOMAIN loaded_settings_ut

Differs(f) ==
    PresentInBoth(f) /\ loaded_settings[f] # loaded_settings_ut[f]

AgreeOnAll == \A f \in CriticalFields : ~Differs(f)

\* the lines of a default_cmake_options text that become a record: those
\* with something other than whitespace before their first '='
PrintedLines(text) ==
    LET lines == Split(text, "\n") IN
    Cardinality({i \in 1..Len(lines) :
                    /\ Strip(lines[i]) # <<>>
                    /\ Head(Strip(lines[i])) # "="})

\* the records a field present and equal in both mappings is due
RecordsDue(f) ==
    IF f = "default_cmake_options" THEN PrintedLines(loaded_settings[f])
    ELSE 1

\* the last text written to stdout
LastWritten == stdout[Len(stdout)]

TrailerWritten ==
    /\ stdout # <<>>
    /\ origin[Len(origin)] = "settings_file"
    /\ Count("settings_file") = 1

(***************************************************************************)
(* C1                                                                      *)
(***************************************************************************)

\* C1 as stated: when the two mappings agree on every generator-critical
\* field, the run exits 0 with exactly one record per field present in both
\* mappings and one trailing FPRIME_SETTINGS_FILE record, whatever the
\* values, a default_cmake_options text of zero or several lines included.
\* Read on the runs in which resolve() returns: a run in which it raises
\* exits 1 with nothing written, whatever the mappings.
C1_OneRecordPerField ==
    (Exited /\ BothLoaded /\ ~ResolveFailed /\ AgreeOnAll) =>
        /\ exit_status = <<0>>
        /\ \A f \in CriticalFields :
              Count(f) = IF PresentInBoth(f) THEN 1 ELSE 0
        /\ TrailerWritten

\* C1 amended: when the two mappings agree on every generator-critical
\* field and the settings path resolves, the run exits 0 and stdout holds
\* exactly one record for each of
\* framework_path, project_root, library_locations and install_destination
\* present in both mappings, one record per line of default_cmake_options
\* that has a name before its first '=' (none for an empty text, several for
\* several such lines), nothing for a field absent from either mapping, and
\* exactly one trailing FPRIME_SETTINGS_FILE record.
C1_RecordsPerField ==
    (Exited /\ BothLoaded /\ ~ResolveFailed /\ AgreeOnAll) =>
        /\ exit_status = <<0>>
        /\ \A f \in CriticalFields :
              Count(f) = IF PresentInBoth(f) THEN RecordsDue(f) ELSE 0
        /\ Count("argparse") = 0
        /\ TrailerWritten

\* a successful run with all five fields and a several-line options text
C1_Witness ==
    /\ Exited /\ BothLoaded /\ ~ResolveFailed /\ AgreeOnAll
    /\ \A f \in CriticalFields : PresentInBoth(f)
    /\ loaded_settings["default_cmake_options"] = OptN
    /\ Count("default_cmake_options") = 3
    /\ Len(stdout) = 8

(***************************************************************************)
(* C2                                                                      *)
(***************************************************************************)

\* C2: the records of stdout are in the fixed order framework_path,
\* project_root, library_locations, default_cmake_options,
\* install_destination, with the FPRIME_SETTINGS_FILE record after all of
\* them: no record of an earlier field follows one of a later field, and
\* each single-record field is written under its own name.
C2_FixedOrder ==
    /\ \A i, j \in DOMAIN origin :
          i < j => RankOf(origin[i]) <= RankOf(origin[j])
    /\ \A i \in DOMAIN origin :
          origin[i] \in {"framework_path", "project_root",
                         "library_locations", "install_destination",
                         "settings_file"}
            => HasPrefix(stdout[i], RecordName(origin[i]) \o <<"=">>)
    /\ \A i \in DOMAIN origin :
          i < Len(origin) => origin[i] # "settings_file"

\* a finished run that wrote records of all five fields and the trailer
C2_Witness ==
    /\ Exited
    /\ \A f \in CriticalFields : Count(f) >= 1
    /\ TrailerWritten

(***************************************************************************)
(* C3                                                                      *)
(***************************************************************************)

\* the fields present in both mappings with two different values
DifferingFields == {f \in CriticalFields : Differs(f)}

\* the first of them in the fixed order
FirstDiffering ==
    CHOOSE f \in DifferingFields :
        \A g \in DifferingFields : RankOf(f) <= RankOf(g)

\* C3: in a run whose mappings differ on some generator-critical field,
\* stdout never holds a record of a differing field, of a field after the
\* first differing one, or the FPRIME_SETTINGS_FILE record, and once the
\* process has exited its status is 1 and the last thing on stderr is the
\* message of the exception: the assertion's when the loop was entered.
C3_MismatchAborts ==
    (BothLoaded /\ DifferingFields # {}) =>
        /\ \A i \in DOMAIN origin :
              /\ origin[i] \notin DifferingFields
              /\ RankOf(origin[i]) < RankOf(FirstDiffering)
        /\ pc # "trailer"
        /\ Exited =>
              /\ exit_status = <<1>>
              /\ stderr # <<>>
              /\ stderr[Len(stderr)].kind = "exception"
              /\ LoopEntered =>
                    stderr[Len(stderr)].text = ASSERT_MESSAGE

\* a run aborted at library_locations after framework_path was written
C3_Witness ==
    /\ Exited /\ LoopEntered
    /\ FirstDiffering = "library_locations"
    /\ Differs("install_destination")
    /\ Count("framework_path") = 1
    /\ exit_status = <<1>>

(***************************************************************************)
(* C4                                                                      *)
(***************************************************************************)

AbsentFields == {f \in CriticalFields : ~PresentInBoth(f)}

\* C4 as stated: every field absent from either mapping gets exactly one
\* warning naming it on stderr and no record; every other field, present
\* and equal in both, has its record written; the trailing record is
\* written and the exit status is 0.  Read on the runs in which resolve()
\* returns.
C4_AbsentFieldWarned ==
    (Exited /\ BothLoaded /\ ~ResolveFailed) =>
        \A f \in AbsentFields :
            /\ Warnings(f) = 1
            /\ Count(f) = 0
            /\ \A g \in CriticalFields \ AbsentFields :
                  ~Differs(g) => Count(g) >= 1
            /\ TrailerWritten
            /\ exit_status = <<0>>

\* C4 amended: in a run in which the settings path resolves and no field
\* present in both mappings differs, every field absent from either mapping gets exactly one warning naming
\* it on stderr and no record, stderr holds no other warning, every field
\* present in both has its records written (one, or for
\* default_cmake_options one per line with a name, possibly none), the
\* trailing record is written and the exit status is 0.
C4_AbsentFieldWarnedNoMismatch ==
    (Exited /\ BothLoaded /\ ~ResolveFailed /\ AgreeOnAll) =>
        /\ \A f \in AbsentFields : Warnings(f) = 1 /\ Count(f) = 0
        /\ AllWarnings = Cardinality(AbsentFields)
        /\ Len(stderr) = AllWarnings
        /\ \A g \in CriticalFields \ AbsentFields : Count(g) = RecordsDue(g)
        /\ TrailerWritten
        /\ exit_status = <<0>>

\* a finished run in which project_root is in the build mapping only and
\* library_locations in neither, the other three being written
C4_Witness ==
    /\ Exited /\ BothLoaded /\ ~ResolveFailed /\ AgreeOnAll
    /\ "project_root" \in DOMAIN loaded_settings
    /\ "project_root" \notin DOMAIN loaded_settings_ut
    /\ AbsentFields = {"project_root", "library_locations"}
    /\ Warnings("project_root") = 1
    /\ Count("framework_path") = 1
    /\ Count("install_destination") = 1
    /\ exit_status = <<0>>

(***************************************************************************)
(* C5                                                                      *)
(***************************************************************************)

\* C5: in a run that reaches the end of the field loop the last text written
\* is FPRIME_SETTINGS_FILE=<p> with no ';' after it, <p> being character for
\* character the settings path the caller gave.
C5_TrailerIsGivenPath ==
    (Exited /\ BothLoaded /\ exit_status = <<0>>) =>
        /\ TrailerWritten
        /\ LastWritten = FPRIME_SETTINGS_FILE \o <<"=">> \o settings

(***************************************************************************)
(* C6                                                                      *)
(***************************************************************************)

\* whether old is a substring of s
Contains(s, old) ==
    \E i \in 1..(Len(s) + 1) : MatchesAt(s, old, i)

\* the value of a record NAME=value; written under name
ValuePart(text, name) == SubSeq(text, Len(name) + 2, Len(text) - 1)

\* C6: the replacement of print_setting is idempotent on the values that
\* contain the resolved prefix: for the rule (k -> v) main derived and a
\* value x containing k, replacing in the emitted R(x) once more gives R(x).
C6_RemappingIdempotent ==
    (LoopEntered /\ Count("framework_path") = 1) =>
        LET x == Escape(loaded_settings["framework_path"])
            k == REMAPPING[1].initial
            once == ValuePart(stdout[1], FPRIME_FRAMEWORK_PATH)
        IN  Contains(x, k) => ApplyRemapping(once, REMAPPING) = once

(***************************************************************************)
(* C7                                                                      *)
(***************************************************************************)

\* the consumer's split: the pieces of text between the ';' that no
\* backslash precedes
RECURSIVE SplitUnescaped(_, _, _)
SplitUnescaped(text, i, start) ==
    IF i > Len(text) THEN <<SubSeq(text, start, Len(text))>>
    ELSE IF text[i] = ";" /\ (i = 1 \/ text[i - 1] # "\\")
         THEN <<SubSeq(text, start, i - 1)>>
              \o SplitUnescaped(text, i + 1, i + 1)
         ELSE SplitUnescaped(text, i + 1, start)

\* the consumer's records: each piece with '\;' put back to ';'
ParseRecords(text) ==
    LET pieces == SplitUnescaped(text, 1, 1) IN
    [i \in 1..Len(pieces) |-> Replace(pieces[i], <<"\\", ";">>, <<";">>)]

\* C7: for a scalar value v written under a rule that does not match it, a
\* parser that splits stdout at each ';' no backslash precedes and then
\* replaces each '\;' by ';' recovers as many records as were written, and
\* for v's record exactly NAME=v.
C7_EscapeRoundTrip ==
    (Exited /\ exit_status = <<0>> /\ Count("framework_path") = 1) =>
        LET v == loaded_settings["framework_path"]
            k == REMAPPING[1].initial
            records == ParseRecords(Flatten(stdout))
        IN  (k # <<>> /\ ~Contains(Escape(v), k)) =>
                /\ Len(records) = Len(stdout)
                /\ records[1] = FPRIME_FRAMEWORK_PATH \o <<"=">> \o v

(***************************************************************************)
(* C8                                                                      *)
(***************************************************************************)

ClaimedLibs ==
    <<"F", "P", "R", "I", "M", "E", "_", "L", "I", "B", "R", "A", "R", "Y",
    "_", "L", "O", "C", "A", "T", "I", "O", "N", "S", "=", "p", "r", "o",
    "j", "/", "l", "i", "b", "1", ";", "p", "r", "o", "j", "/", "l", "i",
    "b", "2", ";">>
EscapedLibs ==
    <<"F", "P", "R", "I", "M", "E", "_", "L", "I", "B", "R", "A", "R", "Y",
    "_", "L", "O", "C", "A", "T", "I", "O", "N", "S", "=", "p", "r", "o",
    "j", "/", "l", "i", "b", "1", "\\", ";", "p", "r", "o", "j", "/", "l",
    "i", "b", "2", ";">>

\* the example of C8: proj/settings.ini resolved to
\* /home/u/proj/settings.ini, library_locations [/home/u/proj/lib1,
\* /home/u/proj/lib2], its record written
LibsExample ==
    /\ settings = RelIni
    /\ ini_real_path = AbsIni
    /\ Count("library_locations") = 1
    /\ loaded_settings["library_locations"] = <<Lib1, Lib2>>

\* each path as print_setting would write it alone
RemappedPaths(paths) ==
    [i \in 1..Len(paths) |-> EmittedValue(paths[i], REMAPPING)]

\* the one record of library_locations
LibsRecord == stdout[CHOOSE i \in RecordsOf("library_locations") : TRUE]

\* C8 as stated: the library_locations record is FPRIME_LIBRARY_LOCATIONS=
\* followed by the remapped paths joined by a bare ';' and the terminator
\* ';', and in the example it is FPRIME_LIBRARY_LOCATIONS=proj/lib1;proj/lib2;
C8_LibsJoinedBare ==
    Count("library_locations") >= 1 =>
        /\ Count("library_locations") = 1
        /\ LibsRecord =
              FPRIME_LIBRARY_LOCATIONS \o <<"=">>
              \o Join(RemappedPaths(loaded_settings["library_locations"]),
                      <<";">>)
              \o <<";">>
        /\ LibsExample => LibsRecord = ClaimedLibs

\* C8 amended: the library_locations record is FPRIME_LIBRARY_LOCATIONS=
\* followed by the paths joined by ';' with every ';' of the joined text,
\* the separators included, escaped as '\;' and the remapping applied to the
\* escaped text, and then the terminator ';'; in the example it is
\* FPRIME_LIBRARY_LOCATIONS=proj/lib1\;proj/lib2;
C8_LibsJoinedEscaped ==
    Count("library_locations") >= 1 =>
        /\ Count("library_locations") = 1
        /\ LibsRecord =
              FPRIME_LIBRARY_LOCATIONS \o <<"=">>
              \o ApplyRemapping(
                     Replace(Join(loaded_settings["library_locations"],
                                  <<";">>),
                             <<";">>, <<"\\", ";">>),
                     REMAPPING)
              \o <<";">>
        /\ LibsExample => LibsRecord = EscapedLibs

\* the example's record has been written
C8_Witness ==
    /\ LibsExample
    /\ LibsRecord = EscapedLibs

(***************************************************************************)
(* C9                                                                      *)
(***************************************************************************)

\* C9, first part: a failed resolver call leaves stdout empty, its message
\* on stderr and the exit status 1; and no record is written before both
\* resolver calls have returned
ResolverFailureIsFatal ==
    /\ LoadFailed =>
          /\ stdout = <<>>
          /\ Exited /\ exit_status = <<1>>
          /\ ~LoopEntered
          /\ stderr[Len(stderr)] =
                 [kind |-> "exception", text |-> "load failed"]
    /\ (pc \in {"load", "load_ut"}) => stdout = <<>>
    /\ \A i \in DOMAIN origin : origin[i] # "argparse" => BothLoaded /\ LoopEntered

\* a run ended with status 0 after all fields were processed and the
\* trailing record written
EndedComplete ==
    /\ exit_status = <<0>>
    /\ setting_idx = Len(CMAKE_NEEDED_SETTINGS) + 1
    /\ TrailerWritten

\* C9 as stated: a failed resolver call means no record, the message on
\* stderr and exit status 1; both resolver calls complete before the first
\* record; and every run ends with exit status 0 (all fields processed and
\* the trailing record written) or 1.
C9_ExitZeroOrOne ==
    /\ ResolverFailureIsFatal
    /\ Exited => (EndedComplete \/ exit_status = <<1>>)

\* C9 amended: a failed resolver call means no record, the message on
\* stderr and exit status 1; both resolver calls complete before the first
\* record; every run whose command line argparse accepts ends with exit
\* status 0 (all fields processed and the trailing record written) or 1; a
\* command line argparse rejects ends with status 2, and -h with status 0
\* after the help is printed, both before any resolver call and with no
\* record written.
C9_ExitAfterParse ==
    /\ ResolverFailureIsFatal
    /\ (Exited /\ settings # <<>>) =>
          (EndedComplete \/ exit_status = <<1>>)
    /\ (Exited /\ settings = <<>>) =>
          /\ loaded_settings = EmptyMapping
          /\ \/ /\ exit_status = <<2>>
                /\ stdout = <<>>
                /\ stderr = <<[kind |-> "usage", text |-> "error"]>>
             \/ /\ exit_status = <<0>>
                /\ origin = <<"argparse">>
                /\ stderr = <<>>

\* the unit-test resolver call failed after the build one returned a
\* mapping
C9_Witness ==
    /\ LoadFailed
    /\ loaded_settings # EmptyMapping
    /\ exit_status = <<1>>

(***************************************************************************)
(* C10                                                                     *)
(***************************************************************************)

\* the resolved path is a proper suffix of the given path
ProperSuffix(real, given) ==
    /\ Len(real) < Len(given)
    /\ SubSeq(given, Len(given) - Len(real) + 1, Len(given)) = real

\* the two paths end in different characters
NoCommonSuffix(real, given) == real[Len(real)] # given[Len(given)]

\* C10: the rule main stores has an empty search string only with an empty
\* replacement, and when the given and the resolved path share no suffix,
\* are equal, or the resolved is a proper suffix of the given, every value
\* is written as its escaped form, unchanged by the remapping.
C10_EmptyRuleIsNoOp ==
    LoopEntered =>
        /\ REMAPPING[1].initial = <<>> => REMAPPING[1].final = <<>>
        /\ ( \/ NoCommonSuffix(ini_real_path, settings)
             \/ ini_real_path = settings
             \/ ProperSuffix(ini_real_path, settings) ) =>
              \A i \in RecordsOf("framework_path") :
                  stdout[i] =
                      FPRIME_FRAMEWORK_PATH \o <<"=">>
                      \o Escape(loaded_settings["framework_path"])
                      \o <<";">>

====
